---- MODULE Spec2Model ----
(***************************************************************************)
(* CasAI client: session orchestration (upload, detection, search fan-out, *)
(* generation) and the localStorage persistence of wishlist and projects.  *)
(*                                                                         *)
(* Components modelled:                                                    *)
(*   DesignRequestModal  src/frontend/src/components/Index.tsx:160-315     *)
(*   Index               src/unnamed/part_004                              *)
(*   ProjectReveal       src/unnamed/part_003                              *)
(*   SavedItems          src/frontend/src/pages/Index.tsx:168-208          *)
(*   HomeScreen          src/frontend/src/components/HomeScreen.tsx        *)
(*   StylingChat         src/frontend/src/components/StylingChat.tsx       *)
(***************************************************************************)
EXTENDS Integers, Sequences, FiniteSets, TLC

(***************************************************************************)
(* Bounds of the model.                                                    *)
(***************************************************************************)
\* number of detect requests that may be outstanding together
MaxDetect == 2
\* number of search invocations (handleAction) that may be outstanding together
MaxSearch == 1
\* number of generate_new_design requests that may be outstanding together
MaxGen == 2
\* longest project list handleSaveProject extends in the persistence model
MaxList == 3
\* largest value of Date.now() in the persistence model
MaxClock == 2

(***************************************************************************)
(* Values.                                                                 *)
(***************************************************************************)
\* JavaScript null for string-valued state
NULL == "<null>"
\* JavaScript undefined for a missing field of a wire record
UNDEF == "<undefined>"
\* JavaScript null for selectedItemIndex (indices are 0-based as in the code)
NoIndex == -1

\* File objects the user can choose, identified by File.name
Files == {"sofa.jpg", "room.png"}

\* free text the user can type into the vision field
Visions == {"", " ", "modern", " modern "}

\* what the /detect service finds in a file: list of {class, crop_url}
ItemsOf(file) ==
  IF file = "sofa.jpg"
  THEN << [class |-> "sofa", crop_url |-> "/crops/sofa.jpg/0"],
          [class |-> "lamp", crop_url |-> "/crops/sofa.jpg/1"] >>
  ELSE << [class |-> "chair", crop_url |-> "/crops/room.png/0"] >>

\* bodies a /detect response for a file may carry
DetectBodies(file) == { <<>>, ItemsOf(file) }

\* wire records of /recommend: canonical names, legacy names, missing fields
WireCanonical ==
  [item_name |-> "Sofa A", name |-> UNDEF, item_price |-> "100", price |-> UNDEF,
   item_url |-> "https://x/1", link |-> UNDEF, item_img |-> "/img/1.jpg",
   image |-> UNDEF, item_cat |-> "sofas"]
WireLegacy ==
  [item_name |-> UNDEF, name |-> "Sofa B", item_price |-> UNDEF, price |-> "200",
   item_url |-> UNDEF, link |-> "https://x/2", item_img |-> UNDEF,
   image |-> "/img/2.jpg", item_cat |-> UNDEF]
WireNoUrl ==
  [item_name |-> "Sofa C", name |-> UNDEF, item_price |-> UNDEF, price |-> UNDEF,
   item_url |-> UNDEF, link |-> UNDEF, item_img |-> "/img/3.jpg",
   image |-> UNDEF, item_cat |-> UNDEF]

\* a response body that is valid JSON but not an array
NotArray == << [error |-> "not a list"] >>

\* bodies a /recommend response may carry
RecommendBodies == { <<>>, <<WireCanonical, WireLegacy>>, <<WireNoUrl>>, NotArray }

\* bodies a /google_search response may carry
LinkA == [id |-> "g1", title |-> "Sofa", source |-> "shop",
          link |-> "https://g/1", image |-> UNDEF]
GoogleBodies == { <<>>, <<LinkA>>, NotArray }

\* transport outcomes of a request
Statuses == {"ok", "http_error", "network_error"}

\* Array.isArray on a response body
IsArray(body) == body # NotArray

(***************************************************************************)
(* State.                                                                  *)
(***************************************************************************)
VARIABLES
  \* DesignRequestModal (components/Index.tsx:161-170)
  selectedFile, vision, isSearching, isDetecting,
  detectedItems, selectedItemIndex, originalImagePath,
  \* requests that are in flight: /detect, handleAction, /generate_new_design
  detectCalls, searchCalls, genCalls,
  \* Index (part_004:9-22) and sessionStorage "last_search_results"
  isModalOpen, showResults, generatedImage, realRecommendations,
  externalLinks, generationContext, lastSearchResults,
  \* ProjectReveal (part_003:60-62), its effect position and queued state
  savedItems, isProjectSaved, generatingId, revealPc, pendingItems,
  \* localStorage entries casai_wishlist and casai_projects
  casai_wishlist, casai_projects,
  \* SavedItems page (pages/Index.tsx:169-170), open in a second tab
  pageMounted, pageSavedItems, savedProjects,
  \* HomeScreen (HomeScreen.tsx:14) and whether its effect threw
  hasSavedItems, homeState,
  \* Date.now() in milliseconds
  clock,
  \* StylingChat (StylingChat.tsx:28-33), Index.isChatOpen (part_004:11) and
  \* the /api/chat requests that are in flight
  messages, input, chatSelectedFile, serverImageFilename, isLoading,
  isChatOpen, chatCalls,
  \* what the user and the console saw last; record of the last joined search
  lastToast, lastConsole, lastJoin

modalVars == << selectedFile, vision, isSearching, isDetecting,
                detectedItems, selectedItemIndex, originalImagePath >>
netVars == << detectCalls, searchCalls, genCalls >>
indexVars == << isModalOpen, showResults, generatedImage, realRecommendations,
                externalLinks, generationContext, lastSearchResults >>
revealVars == << savedItems, isProjectSaved, generatingId, revealPc, pendingItems >>
storeVars == << casai_wishlist, casai_projects >>
pageVars == << pageMounted, pageSavedItems, savedProjects >>
homeVars == << hasSavedItems, homeState >>
obsVars == << lastToast, lastConsole, lastJoin >>

chatVars == << messages, input, chatSelectedFile, serverImageFilename,
               isLoading, isChatOpen, chatCalls >>

vars == << modalVars, netVars, indexVars, revealVars, storeVars, pageVars,
           homeVars, clock, chatVars, obsVars >>


(***************************************************************************)
(* Helpers of the modal.                                                   *)
(***************************************************************************)
\* no detected item is selected (selectedItem === null)
NoItem == [class |-> NULL, crop_url |-> NULL]

\* no toast has been shown
NoToast == [title |-> "none", variant |-> "none"]

\* nothing has been joined yet
NoJoin == [rec |-> "none", google |-> "none", onResults |-> 0,
           data |-> <<>>, links |-> <<>>]

\* absent generation context (null / prop not passed)
NoContext == [absent |-> TRUE]

\* nothing stored in sessionStorage under last_search_results
NoSession == [absent |-> TRUE]

\* a request leg that has not settled
Pending == [status |-> "pending", value |-> <<>>, transport |-> "none"]

\* the path with the upload root of the earlier frontend
UploadPath_OldRoot(file) == "uploads/" \o file

\* path under which the backend stores an uploaded file
UploadPath(file) == "appdata/uploads/" \o file

\* smallest request id not used by the calls in flight
FreshId(calls, max) == CHOOSE i \in 1..max : \A c \in calls : c.id # i

\* JavaScript's a || b || c on strings: the first truthy operand, else the last
Or3(a, b, c) ==
  IF a # UNDEF /\ a # "" THEN a
  ELSE IF b # UNDEF /\ b # "" THEN b
  ELSE c

\* JavaScript's a || b
Or2(a, b) == IF a # UNDEF /\ a # "" THEN a ELSE b

\* the map of handleResultsFound reading the canonical names only
FormatItem_NoLegacy(item, i) ==
  [id |-> ToString(i),
   item_name |-> Or2(item.item_name, "Unknown Item"),
   item_price |-> Or2(item.item_price, "N/A"),
   item_cat |-> Or2(item.item_cat, "Furniture"),
   item_url |-> Or2(item.item_url, "#"),
   item_img |-> Or2(item.item_img, "")]

\* one record of handleResultsFound's data.map (0-based index i)
FormatItem(item, i) ==
  [id |-> ToString(i),
   item_name |-> Or3(item.item_name, item.name, "Unknown Item"),
   item_price |-> Or3(item.item_price, item.price, "N/A"),
   item_cat |-> Or2(item.item_cat, "Furniture"),
   item_url |-> Or3(item.item_url, item.link, "#"),
   item_img |-> Or3(item.item_img, item.image, "")]

\* data.map((item, i) => ...) of handleResultsFound
Formatted(data) == [i \in 1..Len(data) |-> FormatItem(data[i], i - 1)]

\* String.prototype.trim on the texts of the model
Trim(s) ==
  CASE s = " " -> ""
    [] s = " modern " -> "modern"
    [] OTHER -> s

\* the external query taken from the text as typed, without trim()
GoogleQuery_NoTrim(text, selectedItem) ==
  IF text # "" THEN text
  ELSE IF selectedItem # NoItem THEN selectedItem.class
  ELSE ""

\* the external query of a search: text, else class of the selected item
GoogleQuery(text, selectedItem) ==
  IF Trim(text) # "" THEN Trim(text)
  ELSE IF selectedItem # NoItem THEN selectedItem.class
  ELSE ""

\* how recommendPromise settles on a response
RecommendSettle(status, body) ==
  IF status = "ok"
  THEN [status |-> "fulfilled", value |-> body, transport |-> status]
  ELSE [status |-> "rejected", value |-> <<>>, transport |-> status]

\* googleSearchPromise returning the body without looking at googleRes.ok
GoogleSettle_NoOkCheck(status, body) ==
  [status |-> "fulfilled", value |-> body, transport |-> status]

\* how googleSearchPromise settles on a response (it never rejects)
GoogleSettle(status, body) ==
  [status |-> "fulfilled",
   value |-> IF status = "ok" THEN body ELSE <<>>,
   transport |-> status]

\* results[k].status === 'fulfilled' ? results[k].value : []
SettledValue(leg) == IF leg.status = "fulfilled" THEN leg.value ELSE <<>>

\* whether the join hands the recommendations to onResults
JoinCallsOnResults(recLeg) == IsArray(SettledValue(recLeg))

\* the context built from the modal's state at the time of the join
JoinContext_Live(c) ==
  [originalImagePath |-> originalImagePath,
   selectedCropUrl |->
     IF selectedItemIndex # NoIndex /\ selectedItemIndex + 1 \in DOMAIN detectedItems
     THEN detectedItems[selectedItemIndex + 1].crop_url ELSE NULL,
   vision |-> vision,
   externalLinks |-> IF IsArray(SettledValue(c.goog))
                     THEN SettledValue(c.goog) ELSE <<>>]

\* the context object the join passes to onResults
JoinContext(c) ==
  [originalImagePath |-> c.path,
   selectedCropUrl |-> c.selectedItem.crop_url,
   vision |-> c.text,
   externalLinks |-> IF IsArray(SettledValue(c.goog))
                     THEN SettledValue(c.goog) ELSE <<>>]

\* the generation context handleResultsFound keeps of the passed context
NewContext(ctx) ==
  [originalImagePath |-> ctx.originalImagePath,
   selectedCropUrl |-> ctx.selectedCropUrl,
   vision |-> ctx.vision]

\* classification of the similarity leg for the record of the last join
RecOutcome(leg) ==
  IF leg.transport = "ok" /\ ~IsArray(leg.value) THEN "malformed" ELSE leg.transport

\* classification of the external leg for the record of the last join
GoogleOutcome(c) == IF c.googleQuery = "" THEN "none" ELSE c.goog.transport


(***************************************************************************)
(* DesignRequestModal: upload and detection.                               *)
(***************************************************************************)
\* toasts and console lines of the modal
ToastUpload == [title |-> "Error: Please upload an image.", variant |-> "destructive"]
ToastNoItems == [title |-> "No Items", variant |-> "default"]
ToastDetectFailed == [title |-> "Error: Detection failed.", variant |-> "destructive"]
ToastNoResults == [title |-> "No results", variant |-> "destructive"]
ToastWentWrong == [title |-> "Error: Something went wrong.", variant |-> "destructive"]

\* the state the reset effect of the modal establishes when isOpen is false
ResetModal ==
  /\ selectedFile' = NULL
  /\ vision' = ""
  /\ detectedItems' = <<>>
  /\ selectedItemIndex' = NoIndex
  /\ originalImagePath' = NULL
  /\ isSearching' = FALSE
  /\ isDetecting' = FALSE

\* the user picks a file: handleFileChange, which starts detectItems(file)
handleFileChange(file) ==
  /\ isModalOpen
  /\ Cardinality(detectCalls) < MaxDetect
  /\ selectedFile' = file
  /\ isDetecting' = TRUE
  /\ detectedItems' = <<>>
  /\ selectedItemIndex' = NoIndex
  /\ originalImagePath' = NULL
  /\ detectCalls' = detectCalls \cup
        { [id |-> FreshId(detectCalls, MaxDetect), file |-> file] }
  /\ UNCHANGED << vision, isSearching, searchCalls, genCalls, indexVars,
                  revealVars, storeVars, pageVars, homeVars, clock, chatVars, obsVars >>

\* the /detect response of call c arrives: the rest of detectItems(file)
DetectResponds(c, status, body) ==
  /\ c \in detectCalls
  /\ detectCalls' = detectCalls \ {c}
  /\ IF status = "ok"
     THEN /\ detectedItems' = body
          /\ originalImagePath' = UploadPath(c.file)
          /\ IF Len(body) > 0
             THEN selectedItemIndex' = 0 /\ lastToast' = lastToast
             ELSE selectedItemIndex' = selectedItemIndex /\ lastToast' = ToastNoItems
          /\ lastConsole' = lastConsole
     ELSE /\ lastToast' = ToastDetectFailed
          /\ lastConsole' = "Detection failed"
          /\ UNCHANGED << detectedItems, originalImagePath, selectedItemIndex >>
  /\ isDetecting' = FALSE
  /\ UNCHANGED << selectedFile, vision, isSearching, searchCalls, genCalls,
                  indexVars, revealVars, storeVars, pageVars, homeVars, clock, chatVars,
                  lastJoin >>

\* the delete button on the preview (components/Index.tsx:391-397)
DeleteImage ==
  /\ isModalOpen
  /\ selectedFile # NULL
  /\ selectedFile' = NULL
  /\ detectedItems' = <<>>
  /\ selectedItemIndex' = NoIndex
  /\ UNCHANGED << vision, isSearching, isDetecting, originalImagePath, netVars,
                  indexVars, revealVars, storeVars, pageVars, homeVars, clock, chatVars,
                  obsVars >>

\* the user clicks a detected item (shown only while not detecting)
SelectItem(idx) ==
  /\ isModalOpen
  /\ ~isDetecting
  /\ idx \in 0..(Len(detectedItems) - 1)
  /\ selectedItemIndex' = idx
  /\ UNCHANGED << selectedFile, vision, isSearching, isDetecting, detectedItems,
                  originalImagePath, netVars, indexVars, revealVars, storeVars,
                  pageVars, homeVars, clock, chatVars, obsVars >>

\* the user edits the vision text
SetVision(v) ==
  /\ isModalOpen
  /\ v # vision
  /\ vision' = v
  /\ UNCHANGED << selectedFile, isSearching, isDetecting, detectedItems,
                  selectedItemIndex, originalImagePath, netVars, indexVars,
                  revealVars, storeVars, pageVars, homeVars, clock, chatVars, obsVars >>

\* the user closes the modal (backdrop or X); the reset effect follows
CloseModal ==
  /\ isModalOpen
  /\ isModalOpen' = FALSE
  /\ ResetModal
  /\ UNCHANGED << netVars, showResults, generatedImage, realRecommendations,
                  externalLinks, generationContext, lastSearchResults,
                  revealVars, storeVars, pageVars, homeVars, clock, chatVars, obsVars >>

\* HomeScreen's onStartProject opens the modal
OpenModal ==
  /\ ~showResults
  /\ ~isModalOpen
  /\ isModalOpen' = TRUE
  /\ UNCHANGED << modalVars, netVars, showResults, generatedImage,
                  realRecommendations, externalLinks, generationContext,
                  lastSearchResults, revealVars, storeVars, pageVars, homeVars,
                  clock, chatVars, obsVars >>


(***************************************************************************)
(* Index: handlers the modal and the results view call.                    *)
(***************************************************************************)
\* what handleResultsFound writes to sessionStorage
SessionEntry(formatted, links, ctx) ==
  [recommendations |-> formatted, externalLinks |-> links, context |-> ctx,
   generatedImage |-> NULL]

\* position of ProjectReveal's effects after Index has rendered it with
\* generatedImage = image: a first render mounts it, a changed image re-runs
\* the load effect (its dependency list is [generatedImage])
RevealPcAfter(image) ==
  IF ~showResults \/ revealPc = "mount" THEN "mount"
  ELSE IF image # generatedImage THEN "reload"
  ELSE revealPc

\* handleResultsFound(data, context) without its setIsModalOpen(false)
handleResultsFound(data, ctx) ==
  IF ~IsArray(data)
  THEN /\ lastConsole' = "Invalid data received from server"
       /\ UNCHANGED << showResults, generatedImage, realRecommendations,
                       externalLinks, generationContext, lastSearchResults,
                       revealPc >>
  ELSE /\ revealPc' = RevealPcAfter(NULL)
       /\ realRecommendations' = Formatted(data)
       /\ externalLinks' = ctx.externalLinks
       /\ generationContext' = NewContext(ctx)
       /\ generatedImage' = NULL
       /\ lastSearchResults' =
            SessionEntry(Formatted(data), ctx.externalLinks, NewContext(ctx))
       /\ showResults' = TRUE
       /\ lastConsole' = lastConsole

\* the results view's onClose (part_004:124-131)
CloseResults ==
  /\ showResults
  /\ showResults' = FALSE
  /\ realRecommendations' = <<>>
  /\ externalLinks' = <<>>
  /\ generationContext' = NoContext
  /\ isModalOpen' = TRUE

(***************************************************************************)
(* DesignRequestModal: search fan-out (handleAction).                      *)
(***************************************************************************)
\* detectedItems[selectedItemIndex], undefined and null both giving NoItem
SelectedItem ==
  IF selectedItemIndex # NoIndex /\ selectedItemIndex + 1 \in DOMAIN detectedItems
  THEN detectedItems[selectedItemIndex + 1]
  ELSE NoItem

\* the search button is enabled
SearchEnabled == ~isSearching /\ ~isDetecting /\ selectedFile # NULL

\* the user starts a search: handleAction up to the await of both legs
handleAction ==
  /\ isModalOpen
  /\ SearchEnabled
  /\ Cardinality(searchCalls) < MaxSearch
  /\ isSearching' = TRUE
  /\ LET q == GoogleQuery(vision, SelectedItem) IN
       searchCalls' = searchCalls \cup
         { [id |-> FreshId(searchCalls, MaxSearch),
            selectedItem |-> SelectedItem,
            file |-> selectedFile,
            text |-> vision,
            path |-> originalImagePath,
            googleQuery |-> q,
            rec |-> Pending,
            goog |-> IF q = "" THEN GoogleSettle("none", <<>>) ELSE Pending] }
  /\ UNCHANGED << selectedFile, vision, isDetecting, detectedItems,
                  selectedItemIndex, originalImagePath, detectCalls, genCalls,
                  indexVars, revealVars, storeVars, pageVars, homeVars, clock, chatVars,
                  obsVars >>

\* the continuation of handleAction after Promise.allSettled (lines 293-313)
Join(c) ==
  /\ IF JoinCallsOnResults(c.rec)
     THEN /\ handleResultsFound(SettledValue(c.rec), JoinContext(c))
          /\ lastToast' = lastToast
     ELSE /\ lastToast' = ToastNoResults
          /\ UNCHANGED << showResults, generatedImage, realRecommendations,
                          externalLinks, generationContext, lastSearchResults,
                          lastConsole, revealPc >>
  /\ isModalOpen' = FALSE
  /\ IF isModalOpen
     THEN ResetModal
     ELSE /\ isSearching' = FALSE
          /\ UNCHANGED << selectedFile, vision, isDetecting, detectedItems,
                          selectedItemIndex, originalImagePath >>
  /\ lastJoin' =
       [rec |-> RecOutcome(c.rec),
        google |-> GoogleOutcome(c),
        onResults |-> IF JoinCallsOnResults(c.rec) THEN 1 ELSE 0,
        data |-> IF JoinCallsOnResults(c.rec) THEN SettledValue(c.rec) ELSE <<>>,
        links |-> IF JoinCallsOnResults(c.rec)
                  THEN JoinContext(c).externalLinks ELSE <<>>]

\* the join of Promise.all: it also ends when the similarity leg rejects
Settle_FailFast(c, c2) ==
  IF \/ c2.rec.status # "pending" /\ c2.goog.status # "pending"
     \/ c2.rec.status = "rejected"
  THEN /\ searchCalls' = searchCalls \ {c}
       /\ Join(c2)
  ELSE /\ searchCalls' = (searchCalls \ {c}) \cup {c2}
       /\ UNCHANGED << modalVars, indexVars, lastToast, lastConsole, lastJoin,
                       revealPc >>

\* a leg of call c has settled, giving c2: join when both have, else wait
Settle(c, c2) ==
  IF c2.rec.status # "pending" /\ c2.goog.status # "pending"
  THEN /\ searchCalls' = searchCalls \ {c}
       /\ Join(c2)
  ELSE /\ searchCalls' = (searchCalls \ {c}) \cup {c2}
       /\ UNCHANGED << modalVars, indexVars, lastToast, lastConsole, lastJoin,
                       revealPc >>

\* the /recommend response of call c arrives
RecommendResponds(c, status, body) ==
  /\ c \in searchCalls
  /\ c.rec.status = "pending"
  /\ Settle(c, [c EXCEPT !.rec = RecommendSettle(status, body)])
  /\ UNCHANGED << detectCalls, genCalls, savedItems, isProjectSaved,
                  generatingId, pendingItems, storeVars, pageVars, homeVars,
                  clock, chatVars >>

\* the /google_search response of call c arrives
GoogleResponds(c, status, body) ==
  /\ c \in searchCalls
  /\ c.goog.status = "pending"
  /\ Settle(c, [c EXCEPT !.goog = GoogleSettle(status, body)])
  /\ UNCHANGED << detectCalls, genCalls, savedItems, isProjectSaved,
                  generatingId, pendingItems, storeVars, pageVars, homeVars,
                  clock, chatVars >>

\* ProjectReveal is unmounted: its state is dropped, and the requests it
\* has in flight can no longer reach a mounted component
UnmountReveal ==
  /\ savedItems' = <<>>
  /\ isProjectSaved' = FALSE
  /\ generatingId' = NULL
  /\ pendingItems' = <<>>
  /\ revealPc' = "unmounted"
  /\ genCalls' = { [c EXCEPT !.orphan = TRUE] : c \in genCalls }

\* the user leaves the results view
onClose ==
  /\ CloseResults
  /\ UnmountReveal
  /\ UNCHANGED << modalVars, detectCalls, searchCalls, generatedImage,
                  lastSearchResults, storeVars, pageVars, homeVars, clock, chatVars,
                  obsVars >>


(***************************************************************************)
(* Initial values of the components (their useState initialisers).         *)
(***************************************************************************)
\* a localStorage entry that was never written (getItem returns null)
Absent == [kind |-> "absent", val |-> <<>>]

InitModal ==
  /\ selectedFile = NULL
  /\ vision = ""
  /\ isSearching = FALSE
  /\ isDetecting = FALSE
  /\ detectedItems = <<>>
  /\ selectedItemIndex = NoIndex
  /\ originalImagePath = NULL

InitNet ==
  /\ detectCalls = {}
  /\ searchCalls = {}
  /\ genCalls = {}

InitIndex ==
  /\ isModalOpen = FALSE
  /\ showResults = FALSE
  /\ generatedImage = NULL
  /\ realRecommendations = <<>>
  /\ externalLinks = <<>>
  /\ generationContext = NoContext
  /\ lastSearchResults = NoSession

InitReveal ==
  /\ savedItems = <<>>
  /\ isProjectSaved = FALSE
  /\ generatingId = NULL
  /\ revealPc = "unmounted"
  /\ pendingItems = <<>>

InitPage ==
  /\ pageMounted = FALSE
  /\ pageSavedItems = <<>>
  /\ savedProjects = <<>>

InitHome ==
  /\ hasSavedItems = FALSE
  /\ homeState = "unmounted"

InitChat ==
  /\ messages = <<>>
  /\ input = ""
  /\ chatSelectedFile = NULL
  /\ serverImageFilename = NULL
  /\ isLoading = FALSE
  /\ isChatOpen = FALSE
  /\ chatCalls = {}

InitObs ==
  /\ lastToast = NoToast
  /\ lastConsole = ""
  /\ lastJoin = NoJoin

(***************************************************************************)
(* Specification of upload and detection (DesignRequestModal).             *)
(***************************************************************************)
Init ==
  /\ InitModal /\ InitNet /\ InitIndex /\ InitReveal /\ InitPage /\ InitHome
  /\ casai_wishlist = Absent
  /\ casai_projects = Absent
  /\ clock = 1
  /\ InitChat
  /\ InitObs

Next ==
  \/ \E f \in Files : handleFileChange(f)
  \/ \E c \in detectCalls, st \in Statuses :
        \E b \in DetectBodies(c.file) : DetectResponds(c, st, b)
  \/ DeleteImage
  \/ \E i \in 0..1 : SelectItem(i)
  \/ CloseModal
  \/ OpenModal

Spec == Init /\ [][Next]_vars

(***************************************************************************)
(* Specification of the search fan-out (DesignRequestModal and Index).     *)
(* It starts with the modal open after an upload: the detect call of the   *)
(* selected file f or of an earlier file g has answered last (or failed).  *)
(***************************************************************************)
InitSearch ==
  /\ \E f \in Files, g \in Files, st \in {"ok", "http_error"} :
       \E b \in DetectBodies(g) :
         /\ selectedFile = f
         /\ detectedItems = IF st = "ok" THEN b ELSE <<>>
         /\ selectedItemIndex = IF st = "ok" /\ Len(b) > 0 THEN 0 ELSE NoIndex
         /\ originalImagePath = IF st = "ok" THEN UploadPath(g) ELSE NULL
  /\ vision = ""
  /\ isSearching = FALSE
  /\ isDetecting = FALSE
  /\ InitNet
  /\ isModalOpen = TRUE
  /\ showResults = FALSE
  /\ generatedImage = NULL
  /\ realRecommendations = <<>>
  /\ externalLinks = <<>>
  /\ generationContext = NoContext
  /\ lastSearchResults = NoSession
  /\ InitReveal /\ InitPage /\ InitHome
  /\ casai_wishlist = Absent
  /\ casai_projects = Absent
  /\ clock = 1
  /\ InitChat
  /\ InitObs

NextSearch ==
  \/ \E v \in Visions : SetVision(v)
  \/ \E i \in 0..1 : SelectItem(i)
  \/ handleAction
  \/ \E c \in searchCalls, st \in Statuses, b \in RecommendBodies :
        RecommendResponds(c, st, b)
  \/ \E c \in searchCalls, st \in Statuses, b \in GoogleBodies :
        GoogleResponds(c, st, b)
  \/ CloseModal
  \/ OpenModal
  \/ onClose

SpecSearch == InitSearch /\ [][NextSearch]_vars


(***************************************************************************)
(* Properties of the search fan-out and of detection.                      *)
(***************************************************************************)
\* transport outcomes that are failures
Failures == {"http_error", "network_error"}

\* elements of a sequence
Range(seq) == { seq[i] : i \in DOMAIN seq }

\* C1: when the similarity request fails and the external request succeeds,
\* the search fails: onResults is not invoked, the results view is not shown
\* and the external links are neither passed on nor stored.
C1_SimilarityFailureFailsSearch ==
  (lastJoin.rec \in Failures /\ lastJoin.google = "ok")
    => /\ lastJoin.onResults = 0
       /\ lastJoin.links = <<>>
       /\ ~showResults
       /\ externalLinks = <<>>
       /\ lastSearchResults = NoSession

\* C2: while a file is selected, the detected items, the selection and the
\* original image path all stem from that file, never from an earlier upload
\* whose detect response arrived late.
C2_StaleDetectDiscarded ==
  selectedFile # NULL
    => /\ originalImagePath \in {NULL, UploadPath(selectedFile)}
       /\ Range(detectedItems) \subseteq Range(ItemsOf(selectedFile))
       /\ (selectedItemIndex # NoIndex /\ detectedItems # <<>>
             => SelectedItem \in Range(ItemsOf(selectedFile)))

\* what a successful search with a failed external leg must deliver
C10_Delivered(b) ==
  /\ lastJoin'.onResults = 1
  /\ lastJoin'.data = b
  /\ lastJoin'.links = <<>>
  /\ showResults'
  /\ realRecommendations' = Formatted(b)
  /\ externalLinks' = <<>>

\* C10: when /recommend succeeds with a list and /google_search fails
\* (network error or non-2xx), the join invokes onResults once with the
\* recommendations and with externalLinks = [], in either completion order.
C10_ExternalFailureTolerated ==
  [][ \A c \in searchCalls :
        /\ \A b \in RecommendBodies \ {NotArray} :
             (RecommendResponds(c, "ok", b) /\ c.goog.transport \in Failures)
               => C10_Delivered(b)
        /\ \A st \in Failures, gb \in GoogleBodies :
             (GoogleResponds(c, st, gb) /\ c.rec.transport = "ok"
                /\ IsArray(c.rec.value))
               => C10_Delivered(c.rec.value) ]_vars

\* C10 witness: a search joined with recommendations and a failed external leg
C10_Witness ==
  /\ lastJoin.rec = "ok"
  /\ lastJoin.google \in Failures
  /\ lastJoin.onResults = 1
  /\ lastJoin.data = <<WireCanonical, WireLegacy>>
  /\ showResults


(***************************************************************************)
(* localStorage values and JSON.                                           *)
(***************************************************************************)
\* JSON.stringify(list): the text of an array
Stored(list) == [kind |-> "array", val |-> list]

\* a stored text that JSON.parse rejects (corrupted write)
Garbage == [kind |-> "garbage", val |-> <<>>]

\* a stored text that parses to a value that is not an array (an object)
NonArray == [kind |-> "nonarray", val |-> <<>>]

\* if (raw): getItem returned a non-empty string
Truthy(raw) == raw.kind # "absent"

\* JSON.parse(raw) throws a SyntaxError
ParseThrows(raw) == raw.kind = "garbage"

\* Array.isArray(JSON.parse(raw))
ParsesToArray(raw) == raw.kind = "array"

\* the array JSON.parse(raw) returns when ParsesToArray(raw)
Parsed(raw) == raw.val

\* JavaScript truthiness of a string-or-null value
TruthyStr(x) == x # NULL /\ x # UNDEF /\ x # ""

(***************************************************************************)
(* ProjectReveal: effects (part_003:65-85, 110-116).                       *)
(***************************************************************************)
\* the load effect throws before it reaches the projects check
LoadThrowsEarly == Truthy(casai_wishlist) /\ ParseThrows(casai_wishlist)

\* the load effect calls setSavedItems(parsed)
LoadSetsItems == Truthy(casai_wishlist) /\ ParsesToArray(casai_wishlist)

\* the load effect reaches setIsProjectSaved(exists)
LoadChecksProject ==
  /\ ~LoadThrowsEarly
  /\ Truthy(casai_projects)
  /\ TruthyStr(generatedImage)
  /\ ParsesToArray(casai_projects)

\* the test comparing the id of a stored project with the image
ProjectExists_ById ==
  \E i \in DOMAIN Parsed(casai_projects) :
     Parsed(casai_projects)[i].id = generatedImage

\* projects.some(p => p.image === generatedImage)
ProjectExists ==
  \E i \in DOMAIN Parsed(casai_projects) :
     Parsed(casai_projects)[i].image = generatedImage

\* effects after a render that (re)runs the load effect: the load effect,
\* and on the first render also the persist effect with the initial savedItems
RevealLoad ==
  /\ revealPc \in {"mount", "reload"}
  /\ pendingItems' = IF LoadSetsItems THEN Parsed(casai_wishlist) ELSE pendingItems
  /\ isProjectSaved' = IF LoadChecksProject THEN ProjectExists ELSE isProjectSaved
  /\ lastConsole' =
       IF \/ LoadThrowsEarly
          \/ (Truthy(casai_projects) /\ TruthyStr(generatedImage)
                /\ ~ParsesToArray(casai_projects))
       THEN "Failed to load data" ELSE lastConsole
  /\ casai_wishlist' =
       IF revealPc = "mount" THEN Stored(savedItems) ELSE casai_wishlist
  /\ revealPc' = IF LoadSetsItems THEN "rerender" ELSE "idle"
  /\ UNCHANGED << modalVars, netVars, indexVars, savedItems, generatingId,
                  casai_projects, pageVars, homeVars, clock, chatVars, lastToast, lastJoin >>

\* the render with the loaded wishlist, followed by the persist effect
RevealRerender ==
  /\ revealPc = "rerender"
  /\ savedItems' = pendingItems
  /\ casai_wishlist' = Stored(pendingItems)
  /\ revealPc' = "idle"
  /\ UNCHANGED << modalVars, netVars, indexVars, isProjectSaved, generatingId,
                  pendingItems, casai_projects, pageVars, homeVars, clock, chatVars,
                  obsVars >>

(***************************************************************************)
(* ProjectReveal: generation (part_003:128-158) and Index's handler.       *)
(***************************************************************************)
\* images the generative backend may return
Images == {"imgA", "imgB"}

\* bodies a /generate_new_design response may carry
GenBodies == { [generated_image |-> img] : img \in Images \cup {UNDEF} }

\* an external link that carries an image (and so a generate button)
LinkB == [id |-> "g2", title |-> "Lamp", source |-> "shop",
          link |-> "https://g/2", image |-> "https://g/2.jpg"]

\* the guard of handleGenerateDesign passes (onGeneratedImage is always passed)
ContextValid ==
  /\ generationContext # NoContext
  /\ TruthyStr(generationContext.originalImagePath)
  /\ TruthyStr(generationContext.selectedCropUrl)

\* <<image_url, id>> of the generate buttons that are rendered and enabled
GenButtons ==
  { b \in
      { <<realRecommendations[i].item_img, realRecommendations[i].id>> :
          i \in DOMAIN realRecommendations }
      \cup { <<externalLinks[i].image, externalLinks[i].id>> :
          i \in { j \in DOMAIN externalLinks : TruthyStr(externalLinks[j].image) } }
      \cup { <<savedItems[i].item_img, savedItems[i].item_url>> :
          i \in DOMAIN savedItems } :
    b[2] # generatingId }

\* the user clicks a generate button: handleGenerateDesign up to the await
handleGenerateDesign(image_url, id) ==
  /\ showResults
  /\ revealPc = "idle"
  /\ <<image_url, id>> \in GenButtons
  /\ Cardinality(genCalls) < MaxGen
  /\ IF ~ContextValid
     THEN /\ lastConsole' = "Missing context for generation"
          /\ UNCHANGED << genCalls, generatingId >>
     ELSE /\ generatingId' = id
          /\ genCalls' = genCalls \cup
               { [id |-> FreshId(genCalls, MaxGen),
                  key |-> id,
                  original_image_path |-> generationContext.originalImagePath,
                  selected_crop_url |-> generationContext.selectedCropUrl,
                  recommendation_image_url |-> image_url,
                  prompt |-> Or2(generationContext.vision,
                                 "A modern interior design"),
                  orphan |-> FALSE] }
          /\ lastConsole' = lastConsole
  /\ UNCHANGED << modalVars, detectCalls, searchCalls, indexVars, savedItems,
                  isProjectSaved, revealPc, pendingItems, storeVars, pageVars,
                  homeVars, clock, chatVars, lastToast, lastJoin >>

\* Index.handleImageGenerated(base64Image) (part_004:81-94)
handleImageGenerated(img) ==
  /\ generatedImage' = img
  /\ isModalOpen' = FALSE
  /\ IF isModalOpen THEN ResetModal ELSE UNCHANGED modalVars
  /\ showResults' = TRUE
  /\ lastSearchResults' =
       IF lastSearchResults = NoSession THEN NoSession
       ELSE [lastSearchResults EXCEPT !.generatedImage = img]
  /\ revealPc' = RevealPcAfter(img)
  /\ UNCHANGED << realRecommendations, externalLinks, generationContext >>

\* a response handler that drops the displayed image when the call failed
GenResponds_ClearsImage(c, status, body) ==
  /\ c \in genCalls
  /\ genCalls' = genCalls \ {c}
  /\ IF status = "ok" /\ TruthyStr(body.generated_image)
     THEN /\ handleImageGenerated(body.generated_image)
          /\ lastConsole' = lastConsole
     ELSE /\ lastConsole' = IF status = "ok" THEN lastConsole ELSE "Generation failed"
          /\ generatedImage' = NULL
          /\ UNCHANGED << modalVars, isModalOpen, showResults, realRecommendations,
                          externalLinks, generationContext, lastSearchResults,
                          revealPc >>
  /\ generatingId' = IF c.orphan THEN generatingId ELSE NULL
  /\ UNCHANGED << detectCalls, searchCalls, savedItems, isProjectSaved,
                  pendingItems, storeVars, pageVars, homeVars, clock, chatVars, lastToast,
                  lastJoin >>

\* the /generate_new_design response of call c arrives
GenResponds(c, status, body) ==
  /\ c \in genCalls
  /\ genCalls' = genCalls \ {c}
  /\ IF status = "ok" /\ TruthyStr(body.generated_image)
     THEN /\ handleImageGenerated(body.generated_image)
          /\ lastConsole' = lastConsole
     ELSE /\ lastConsole' = IF status = "ok" THEN lastConsole ELSE "Generation failed"
          /\ UNCHANGED << modalVars, indexVars, revealPc >>
  /\ generatingId' = IF c.orphan THEN generatingId ELSE NULL
  /\ UNCHANGED << detectCalls, searchCalls, savedItems, isProjectSaved,
                  pendingItems, storeVars, pageVars, homeVars, clock, chatVars, lastToast,
                  lastJoin >>

(***************************************************************************)
(* Specification of generation: the results view has just been rendered    *)
(* after a search.                                                         *)
(***************************************************************************)
\* contexts a search can emit for the uploaded file sofa.jpg
GenContexts ==
  { [originalImagePath |-> pc[1], selectedCropUrl |-> pc[2], vision |-> v] :
      pc \in { <<NULL, NULL>>,
               <<UploadPath("sofa.jpg"), NULL>>,
               <<UploadPath("sofa.jpg"), "/crops/sofa.jpg/0">> },
      v \in {"", "modern"} }

InitGen ==
  /\ InitModal /\ InitNet
  /\ isModalOpen = FALSE
  /\ showResults = TRUE
  /\ generatedImage = NULL
  /\ realRecommendations = Formatted(<<WireCanonical, WireLegacy>>)
  /\ externalLinks \in { <<>>, <<LinkA, LinkB>> }
  /\ generationContext \in GenContexts
  /\ lastSearchResults =
       SessionEntry(realRecommendations, externalLinks, generationContext)
  /\ savedItems = <<>>
  /\ isProjectSaved = FALSE
  /\ generatingId = NULL
  /\ revealPc = "mount"
  /\ pendingItems = <<>>
  /\ casai_wishlist \in { Absent, Stored(<<FormatItem(WireCanonical, 0)>>) }
  /\ casai_projects = Absent
  /\ InitPage /\ InitHome
  /\ clock = 1
  /\ InitChat
  /\ InitObs

NextGen ==
  \/ RevealLoad
  \/ RevealRerender
  \/ \E b \in GenButtons : handleGenerateDesign(b[1], b[2])
  \/ \E c \in genCalls, st \in Statuses, b \in GenBodies : GenResponds(c, st, b)
  \/ onClose
  \/ CloseModal

SpecGen == InitGen /\ [][NextGen]_vars

\* C3: at most one generate_new_design request is in flight at any time.
C3_SingleGenerationInFlight == Cardinality(genCalls) <= 1

\* C4: a generate invocation with an absent or incomplete context issues no
\* request and shows a validation error to the user.
C4_InvalidContextReported ==
  [][ \A b \in GenButtons :
        (handleGenerateDesign(b[1], b[2]) /\ ~ContextValid)
          => (genCalls' = genCalls /\ lastToast' # lastToast) ]_vars


(***************************************************************************)
(* Wishlist and saved projects: ProjectReveal (part_003:87-126) in one     *)
(* tab, the SavedItems page (pages/Index.tsx:168-208) in another, and      *)
(* HomeScreen (HomeScreen.tsx:16-24).                                      *)
(***************************************************************************)
\* a second wire record without any URL field
WireNoUrl2 ==
  [item_name |-> "Lamp D", name |-> UNDEF, item_price |-> "50", price |-> UNDEF,
   item_url |-> UNDEF, link |-> UNDEF, item_img |-> "/img/4.jpg",
   image |-> UNDEF, item_cat |-> UNDEF]

\* the /recommend list behind the results view of the persistence model
StoreData == <<WireCanonical, WireNoUrl, WireNoUrl2>>

\* the context passed with StoreData
StoreContext ==
  [originalImagePath |-> UploadPath("sofa.jpg"),
   selectedCropUrl |-> "/crops/sofa.jpg/0",
   vision |-> "modern", externalLinks |-> <<>>]

\* the filter with its test inverted: it keeps the matching entries
RemoveOp_KeepsMatch(current, url) == SelectSeq(current, LAMBDA p : p.item_url = url)

\* current.filter((p) => p.item_url !== url)
RemoveOp(current, url) == SelectSeq(current, LAMBDA p : p.item_url # url)

\* the updater of toggleSaveItem with the new entry put first
ToggleOp_Prepend(current, item) ==
  IF \E i \in DOMAIN current : current[i].item_url = item.item_url
  THEN RemoveOp(current, item.item_url)
  ELSE <<item>> \o current

\* the updater of toggleSaveItem (part_003:119-125)
ToggleOp(current, item) ==
  IF \E i \in DOMAIN current : current[i].item_url = item.item_url
  THEN RemoveOp(current, item.item_url)
  ELSE Append(current, item)

\* the heart button of a recommendation: toggleSaveItem and, after the
\* render, the persist effect
toggleSaveItem(item) ==
  /\ showResults
  /\ revealPc = "idle"
  /\ \E i \in DOMAIN realRecommendations : realRecommendations[i] = item
  /\ savedItems' = ToggleOp(savedItems, item)
  /\ casai_wishlist' = Stored(ToggleOp(savedItems, item))
  /\ UNCHANGED << modalVars, netVars, indexVars, isProjectSaved, generatingId,
                  revealPc, pendingItems, casai_projects, pageVars, homeVars,
                  clock, chatVars, obsVars >>

\* the project handleSaveProject builds (its display date is left out)
NewProject ==
  [id |-> ToString(clock),
   image |-> generatedImage,
   recommendations |-> realRecommendations,
   vision |-> IF generationContext # NoContext
              THEN Or2(generationContext.vision, "New Design")
              ELSE "New Design"]

\* handleSaveProject returns before it touches the store
SaveReturnsEarly == ~TruthyStr(generatedImage) \/ isProjectSaved

\* the try block of handleSaveProject throws (JSON.parse, or the spread of
\* a value that is not iterable)
SaveThrows ==
  Truthy(casai_projects) /\ ~ParsesToArray(casai_projects)

\* rawProjects ? JSON.parse(rawProjects) : [] when it does not throw
ProjectsRead == IF Truthy(casai_projects) THEN Parsed(casai_projects) ELSE <<>>

\* the save button: handleSaveProject
handleSaveProject ==
  /\ showResults
  /\ revealPc = "idle"
  /\ Len(ProjectsRead) < MaxList
  /\ IF SaveReturnsEarly
     THEN UNCHANGED << casai_projects, isProjectSaved, lastConsole >>
     ELSE IF SaveThrows
     THEN /\ lastConsole' = "Failed to save project"
          /\ UNCHANGED << casai_projects, isProjectSaved >>
     ELSE /\ casai_projects' = Stored(<<NewProject>> \o ProjectsRead)
          /\ isProjectSaved' = TRUE
          /\ lastConsole' = lastConsole
  /\ UNCHANGED << modalVars, netVars, indexVars, savedItems, generatingId,
                  revealPc, pendingItems, casai_wishlist, pageVars, homeVars,
                  clock, chatVars, lastToast, lastJoin >>

\* SavedItems is opened: its load effect (pages/Index.tsx:174-196)
MountPage ==
  /\ ~pageMounted
  /\ pageMounted' = TRUE
  /\ pageSavedItems' =
       IF Truthy(casai_wishlist) /\ ParsesToArray(casai_wishlist)
       THEN Parsed(casai_wishlist) ELSE <<>>
  /\ savedProjects' =
       IF /\ ~(Truthy(casai_wishlist) /\ ParseThrows(casai_wishlist))
          /\ Truthy(casai_projects) /\ ParsesToArray(casai_projects)
       THEN Parsed(casai_projects) ELSE <<>>
  /\ UNCHANGED << modalVars, netVars, indexVars, revealVars, storeVars,
                  homeVars, clock, chatVars, obsVars >>

\* SavedItems is left
UnmountPage ==
  /\ pageMounted
  /\ pageMounted' = FALSE
  /\ pageSavedItems' = <<>>
  /\ savedProjects' = <<>>
  /\ UNCHANGED << modalVars, netVars, indexVars, revealVars, storeVars,
                  homeVars, clock, chatVars, obsVars >>

\* SavedItems.removeItem(itemUrl)
removeItem(itemUrl) ==
  /\ pageMounted
  /\ pageSavedItems' = RemoveOp(pageSavedItems, itemUrl)
  /\ casai_wishlist' = Stored(RemoveOp(pageSavedItems, itemUrl))
  /\ UNCHANGED << modalVars, netVars, indexVars, revealVars, casai_projects,
                  pageMounted, savedProjects, homeVars, clock, chatVars, obsVars >>

\* savedProjects.filter((p) => p.id !== projectId)
RemoveProjectOp(projects, projectId) ==
  SelectSeq(projects, LAMBDA p : p.id # projectId)

\* SavedItems.removeProject(projectId)
removeProject(projectId) ==
  /\ pageMounted
  /\ savedProjects' = RemoveProjectOp(savedProjects, projectId)
  /\ casai_projects' = Stored(RemoveProjectOp(savedProjects, projectId))
  /\ UNCHANGED << modalVars, netVars, indexVars, revealVars, casai_wishlist,
                  pageMounted, pageSavedItems, homeVars, clock, chatVars, obsVars >>

\* HomeScreen is mounted: its effect, which parses outside any try block
MountHome ==
  /\ ~showResults
  /\ homeState = "unmounted"
  /\ IF Truthy(casai_wishlist) /\ ParseThrows(casai_wishlist)
     THEN homeState' = "crashed" /\ hasSavedItems' = FALSE
     ELSE /\ homeState' = "mounted"
          /\ hasSavedItems' =
               (/\ Truthy(casai_wishlist) /\ ParsesToArray(casai_wishlist)
                /\ Len(Parsed(casai_wishlist)) > 0)
  /\ UNCHANGED << modalVars, netVars, indexVars, revealVars, storeVars,
                  pageVars, clock, chatVars, obsVars >>


(***************************************************************************)
(* Specification of the persistence layer: tab A runs Index (HomeScreen,   *)
(* then ProjectReveal), tab B the SavedItems page; both share localStorage.*)
(***************************************************************************)
\* a search delivers StoreData: Index.handleResultsFound replaces HomeScreen
\* by the results view
ResultsFound ==
  /\ ~showResults
  /\ homeState = "mounted"
  /\ handleResultsFound(StoreData, StoreContext)
  /\ isModalOpen' = FALSE
  /\ homeState' = "unmounted"
  /\ hasSavedItems' = FALSE
  /\ UNCHANGED << modalVars, netVars, savedItems, isProjectSaved, generatingId,
                  pendingItems, storeVars, pageVars, clock, chatVars, lastToast, lastJoin >>

\* a generation answers: ProjectReveal calls onGeneratedImage(img)
onGeneratedImage(img) ==
  /\ showResults
  /\ revealPc = "idle"
  /\ handleImageGenerated(img)
  /\ UNCHANGED << netVars, savedItems, isProjectSaved, generatingId,
                  pendingItems, storeVars, pageVars, homeVars, clock, chatVars, obsVars >>

\* time passes
Tick ==
  /\ clock < MaxClock
  /\ clock' = clock + 1
  /\ UNCHANGED << modalVars, netVars, indexVars, revealVars, storeVars,
                  pageVars, homeVars, chatVars, obsVars >>

\* the first product of the results view, as stored by an earlier session
StoredProduct == FormatItem(WireCanonical, 0)

InitStore ==
  /\ InitModal /\ InitNet /\ InitIndex /\ InitReveal /\ InitPage /\ InitHome
  /\ casai_wishlist \in
       { Absent, Garbage, NonArray, Stored(<<>>), Stored(<<StoredProduct>>) }
  /\ casai_projects \in { Absent, Garbage, NonArray, Stored(<<>>) }
  /\ clock = 1
  /\ InitChat
  /\ InitObs

NextStore ==
  \/ MountHome
  \/ ResultsFound
  \/ RevealLoad
  \/ RevealRerender
  \/ \E i \in DOMAIN realRecommendations : toggleSaveItem(realRecommendations[i])
  \/ handleSaveProject
  \/ \E img \in Images : onGeneratedImage(img)
  \/ onClose
  \/ MountPage
  \/ UnmountPage
  \/ \E i \in DOMAIN pageSavedItems : removeItem(pageSavedItems[i].item_url)
  \/ \E i \in DOMAIN savedProjects : removeProject(savedProjects[i].id)
  \/ Tick

SpecStore == InitStore /\ [][NextStore]_vars


(***************************************************************************)
(* Properties of the persistence layer.                                    *)
(***************************************************************************)
\* the collection a stored text stands for, malformed or absent being empty
StoreList(raw) == IF Truthy(raw) /\ ParsesToArray(raw) THEN Parsed(raw) ELSE <<>>

\* the item_url keys of a wishlist
Keys(list) == { list[i].item_url : i \in DOMAIN list }

\* no two entries of a wishlist have the same item_url
UniqueUrls(list) ==
  \A i, j \in DOMAIN list : list[i].item_url = list[j].item_url => i = j

\* two records describe the same recommendation (id is the list position)
SameProduct(a, b) ==
  /\ a.item_name = b.item_name
  /\ a.item_price = b.item_price
  /\ a.item_img = b.item_img
  /\ a.item_url = b.item_url

\* the filled heart of a recommendation card (part_003:317)
IsSaved(product) ==
  \E i \in DOMAIN savedItems : savedItems[i].item_url = product.item_url

\* a stored text that is absent, unparseable or not an array
Malformed(raw) == ~(Truthy(raw) /\ ParsesToArray(raw))

\* C5 as stated: toggling twice with products of one item_url gives back the
\* wishlist, same entries in the same order.
C5_ToggleTwiceRestores ==
  \A i, j \in DOMAIN realRecommendations :
     realRecommendations[i].item_url = realRecommendations[j].item_url
       => ToggleOp(ToggleOp(savedItems, realRecommendations[i]),
                   realRecommendations[j]) = savedItems

\* C5 amended: toggling twice with products of one item_url keeps the set of
\* keys; it gives back the wishlist itself when the key was not in it, and
\* otherwise the other entries in their order followed by the toggled product.
C5_ToggleTwiceKeepsKeys ==
  \A i, j \in DOMAIN realRecommendations :
     LET p == realRecommendations[i]
         q == realRecommendations[j]
         twice == ToggleOp(ToggleOp(savedItems, p), q)
     IN  p.item_url = q.item_url
           => /\ Keys(twice) = Keys(savedItems)
              /\ (p.item_url \notin Keys(savedItems) => twice = savedItems)
              /\ (p.item_url \in Keys(savedItems)
                    => twice = Append(RemoveOp(savedItems, p.item_url), q))

\* C5 witness: toggles have built a wishlist whose first of several entries
\* has the key of a displayed product
C5_Witness ==
  /\ revealPc = "idle"
  /\ Len(savedItems) >= 2
  /\ \E i \in DOMAIN realRecommendations :
        realRecommendations[i].item_url = savedItems[1].item_url
  /\ casai_wishlist = Stored(savedItems)

\* C6: every mutation writes the result of applying itself to the collection
\* that is in the store at that moment, so no update of another surface is lost.
C6_AtomicReadModifyWrite ==
  [][ /\ \A i \in DOMAIN realRecommendations :
           toggleSaveItem(realRecommendations[i])
             => casai_wishlist' =
                  Stored(ToggleOp(StoreList(casai_wishlist), realRecommendations[i]))
      /\ \A i \in DOMAIN pageSavedItems :
           removeItem(pageSavedItems[i].item_url)
             => casai_wishlist' =
                  Stored(RemoveOp(StoreList(casai_wishlist),
                                  pageSavedItems[i].item_url))
      /\ \A i \in DOMAIN savedProjects :
           removeProject(savedProjects[i].id)
             => casai_projects' =
                  Stored(RemoveProjectOp(StoreList(casai_projects),
                                         savedProjects[i].id)) ]_vars

\* C7: a component that starts on an absent, unparseable or non-array stored
\* value gets an empty collection and no exception escapes its loading code.
C7_MalformedStoreLoadsEmpty ==
  [][ /\ (MountHome /\ Malformed(casai_wishlist))
           => (homeState' = "mounted" /\ ~hasSavedItems')
      /\ (RevealLoad /\ revealPc = "mount" /\ Malformed(casai_wishlist))
           => (revealPc' = "idle" /\ savedItems' = <<>>)
      /\ (MountPage /\ Malformed(casai_wishlist)) => pageSavedItems' = <<>>
      /\ (MountPage /\ Malformed(casai_projects)) => savedProjects' = <<>> ]_vars

\* C8: a save that reaches the store makes the stored project list exactly one
\* longer and keeps every project stored before, a malformed stored value
\* counting as the empty list.
C8_SaveAppendsExactlyOne ==
  [][ (handleSaveProject /\ TruthyStr(generatedImage))
        => /\ Len(StoreList(casai_projects')) = Len(StoreList(casai_projects)) + 1
           /\ \A i \in DOMAIN StoreList(casai_projects) :
                \E j \in DOMAIN StoreList(casai_projects') :
                   StoreList(casai_projects')[j] = StoreList(casai_projects)[i] ]_vars

\* the part of C9 that the code keeps: item_url is unique within the wishlist
\* of each surface and within the stored wishlist
WishlistsUnique ==
  /\ UniqueUrls(savedItems)
  /\ UniqueUrls(pageSavedItems)
  /\ UniqueUrls(StoreList(casai_wishlist))

\* C9: item_url is unique within every wishlist, and a recommendation is shown
\* and handled as saved only if that recommendation is a wishlist entry.
C9_WishlistKeyedByUrl ==
  /\ WishlistsUnique
  /\ \A i \in DOMAIN realRecommendations :
        IsSaved(realRecommendations[i])
          => \E j \in DOMAIN savedItems :
                SameProduct(savedItems[j], realRecommendations[i])


\* list without its k-th entry
Without(list, k) ==
  SubSeq(list, 1, k - 1) \o SubSeq(list, k + 1, Len(list))

\* C11: a toggle of a product whose item_url is in no wishlist entry appends
\* it as the last entry; a toggle of a product whose item_url is in the k-th
\* entry removes that entry and keeps the others in their order; the stored
\* wishlist then reads back as the new list (from the empty wishlist: [p],
\* then the empty list).
C11_ToggleAppendsOrRemoves ==
  [][ \A i \in DOMAIN realRecommendations :
        LET p == realRecommendations[i] IN
        toggleSaveItem(p)
          => /\ (p.item_url \notin Keys(savedItems)
                   => savedItems' = savedItems \o <<p>>)
             /\ \A k \in DOMAIN savedItems :
                   savedItems[k].item_url = p.item_url
                     => savedItems' = Without(savedItems, k)
             /\ StoreList(casai_wishlist') = savedItems'
             /\ (savedItems = <<>> => StoreList(casai_wishlist') = <<p>>)
             /\ (savedItems = <<p>> => StoreList(casai_wishlist') = <<>>) ]_vars

\* C11 witness: the second product was saved, then the first, and both read
\* back in the order of insertion
C11_Witness ==
  /\ revealPc = "idle"
  /\ Len(realRecommendations) >= 2
  /\ savedItems = << realRecommendations[2], realRecommendations[1] >>
  /\ casai_wishlist = Stored(savedItems)


(***************************************************************************)
(* Specification of the SavedItems page alone: one tab on the /saved       *)
(* route, removeItem and removeProject called with keys of shown entries   *)
(* and with a key that no entry has.                                       *)
(***************************************************************************)
\* an item_url and a project id that no stored entry has
AbsentUrl == "https://x/none"
AbsentId == "0"

\* projects stored by earlier sessions (ids are Date.now() texts)
ProjectA ==
  [id |-> "1", image |-> "imgA", recommendations |-> <<>>, vision |-> "modern"]
ProjectB ==
  [id |-> "2", image |-> "imgB", recommendations |-> <<>>, vision |-> "New Design"]

\* the wishlists and project lists an earlier session can have stored
PageWishlists ==
  { <<>>, <<Formatted(StoreData)[1]>>, <<Formatted(StoreData)[2]>>,
    <<Formatted(StoreData)[1], Formatted(StoreData)[2]>>,
    <<Formatted(StoreData)[2], Formatted(StoreData)[1]>> }
PageProjects == { <<>>, <<ProjectA>>, <<ProjectB, ProjectA>> }

InitPageOnly ==
  /\ InitModal /\ InitNet /\ InitIndex /\ InitReveal /\ InitPage /\ InitHome
  /\ casai_wishlist \in
       { Absent, Garbage, NonArray } \cup { Stored(l) : l \in PageWishlists }
  /\ casai_projects \in
       { Absent, Garbage, NonArray } \cup { Stored(l) : l \in PageProjects }
  /\ clock = 1
  /\ InitChat
  /\ InitObs

\* the arguments removeItem and removeProject are called with
RemoveUrls == Keys(pageSavedItems) \cup { AbsentUrl }
RemoveIds == { savedProjects[i].id : i \in DOMAIN savedProjects } \cup { AbsentId }

NextPageOnly ==
  \/ MountPage
  \/ UnmountPage
  \/ \E k \in RemoveUrls : removeItem(k)
  \/ \E id \in RemoveIds : removeProject(id)

SpecPageOnly == InitPageOnly /\ [][NextPageOnly]_vars

\* C12: removeItem with a key of no wishlist entry and removeProject with an
\* id of no saved project report nothing and leave the in-memory and the
\* stored collection as they were; with the key or id of the k-th entry they
\* delete that entry only, in memory and in the store.
C12_RemoveIsDeleteIfPresent ==
  [][ /\ \A k \in RemoveUrls :
           removeItem(k)
             => /\ lastConsole' = lastConsole
                /\ (k \notin Keys(pageSavedItems)
                      => /\ pageSavedItems' = pageSavedItems
                         /\ StoreList(casai_wishlist') = StoreList(casai_wishlist))
                /\ \A j \in DOMAIN pageSavedItems :
                      pageSavedItems[j].item_url = k
                        => /\ pageSavedItems' = Without(pageSavedItems, j)
                           /\ StoreList(casai_wishlist') = Without(pageSavedItems, j)
      /\ \A id \in RemoveIds :
           removeProject(id)
             => /\ lastConsole' = lastConsole
                /\ ((\A j \in DOMAIN savedProjects : savedProjects[j].id # id)
                      => /\ savedProjects' = savedProjects
                         /\ StoreList(casai_projects') = StoreList(casai_projects))
                /\ \A j \in DOMAIN savedProjects :
                      savedProjects[j].id = id
                        => /\ savedProjects' = Without(savedProjects, j)
                           /\ StoreList(casai_projects') = Without(savedProjects, j) ]_vars


(***************************************************************************)
(* Specification of the normalisation: handleResultsFound called with the  *)
(* /recommend lists a server can send.                                     *)
(***************************************************************************)
\* wire records: each field absent, empty or set under its canonical name,
\* and absent or set under its legacy name
WireRecords ==
  [item_name : {UNDEF, "", "Sofa A"}, name : {UNDEF, "Sofa B"},
   item_price : {UNDEF, "100"}, price : {UNDEF, "200"},
   item_url : {UNDEF, "https://x/1"}, link : {UNDEF, "https://x/2"},
   item_img : {UNDEF, "/img/1.jpg"}, image : {UNDEF, "/img/2.jpg"},
   item_cat : {UNDEF, "sofas"}]

\* the lists delivered: one record, or a record after WireLegacy
WireLists ==
  { <<w>> : w \in WireRecords }
    \cup { <<WireLegacy, w>> : w \in {WireCanonical, WireLegacy, WireNoUrl} }

\* the modal's onResults(recommendations, context) after a join in which
\* both requests were answered: Index.handleResultsFound with one list
DeliverResults(data) ==
  /\ ~showResults
  /\ handleResultsFound(data, StoreContext)
  /\ isModalOpen' = IF IsArray(data) THEN FALSE ELSE isModalOpen
  /\ lastJoin' = [rec |-> "ok", google |-> "ok", onResults |-> 1,
                  data |-> data, links |-> StoreContext.externalLinks]
  /\ UNCHANGED << modalVars, netVars, savedItems, isProjectSaved, generatingId,
                  pendingItems, storeVars, pageVars, homeVars, clock, chatVars,
                  lastToast >>

InitNormalize ==
  /\ InitModal /\ InitNet /\ InitIndex /\ InitReveal /\ InitPage /\ InitHome
  /\ casai_wishlist = Absent
  /\ casai_projects = Absent
  /\ clock = 1
  /\ InitChat
  /\ InitObs

NextNormalize ==
  \/ \E data \in WireLists : DeliverResults(data)
  \/ onClose

SpecNormalize == InitNormalize /\ [][NextNormalize]_vars

\* a record uses the canonical field names only
IsCanonical(w) ==
  w.name = UNDEF /\ w.price = UNDEF /\ w.link = UNDEF /\ w.image = UNDEF

\* the record carrying the values of a canonical record under the legacy names
AsLegacy(w) ==
  [item_name |-> UNDEF, name |-> w.item_name,
   item_price |-> UNDEF, price |-> w.item_price,
   item_url |-> UNDEF, link |-> w.item_url,
   item_img |-> UNDEF, image |-> w.item_img,
   item_cat |-> w.item_cat]

\* C13: for every list of wire records, canonical, legacy or with fields
\* missing, handleResultsFound reports no crash and shows one record per wire
\* record with item_name, item_price, item_url and item_img defined, the
\* fallbacks "Unknown Item", "N/A" and "" standing for absent fields; a
\* legacy record carrying the values of a canonical one gives the same record.
C13_NormalizationTotal ==
  (showResults /\ lastJoin.onResults = 1)
    => /\ lastConsole = ""
       /\ Len(realRecommendations) = Len(lastJoin.data)
       /\ \A i \in DOMAIN lastJoin.data :
            LET w == lastJoin.data[i]
                r == realRecommendations[i]
            IN  /\ { r.item_name, r.item_price, r.item_url, r.item_img }
                     \cap { UNDEF, NULL } = {}
                /\ (w.item_name = UNDEF /\ w.name = UNDEF
                      => r.item_name = "Unknown Item")
                /\ (w.item_price = UNDEF /\ w.price = UNDEF
                      => r.item_price = "N/A")
                /\ (w.item_img = UNDEF /\ w.image = UNDEF => r.item_img = "")
                /\ (w.item_name \notin {UNDEF, ""} => r.item_name = w.item_name)
                /\ (w.item_name = UNDEF /\ w.name # UNDEF => r.item_name = w.name)
                /\ (IsCanonical(w) => FormatItem(AsLegacy(w), i - 1) = r)

\* C13 witness: a record with a legacy name and nothing else is shown with
\* the three fallbacks
C13_Witness ==
  /\ showResults
  /\ lastJoin.onResults = 1
  /\ \E i \in DOMAIN realRecommendations :
       /\ realRecommendations[i].item_name = "Sofa B"
       /\ realRecommendations[i].item_price = "N/A"
       /\ realRecommendations[i].item_img = ""
       /\ realRecommendations[i].id = "0"


\* a /google_search request was sent for this leg of a search
ExternalIssued(leg) == leg.status = "pending" \/ leg.transport # "none"

\* what a join without an external request leaves behind
NoExternalLinks ==
  (lastJoin.google = "none" /\ lastJoin.onResults = 1)
    => (lastJoin.links = <<>> /\ (showResults => externalLinks = <<>>))

\* C14 as stated: the external query of a search is the free text when that
\* is non-empty, else the class of the selected item, and with neither no
\* external request is sent and the external links are empty.
C14_QueryIsTextElseClass ==
  /\ \A c \in searchCalls :
       IF c.text # ""
       THEN c.googleQuery = c.text /\ ExternalIssued(c.goog)
       ELSE IF c.selectedItem # NoItem
       THEN c.googleQuery = c.selectedItem.class /\ ExternalIssued(c.goog)
       ELSE ~ExternalIssued(c.goog) /\ SettledValue(c.goog) = <<>>
  /\ NoExternalLinks

\* C14 amended: the external query is the free text with surrounding
\* whitespace removed when that is non-empty, else the class of the selected
\* item, and with neither no external request is sent and the external links
\* are empty.
C14_QueryIsTrimmedTextElseClass ==
  /\ \A c \in searchCalls :
       IF Trim(c.text) # ""
       THEN c.googleQuery = Trim(c.text) /\ ExternalIssued(c.goog)
       ELSE IF c.selectedItem # NoItem
       THEN c.googleQuery = c.selectedItem.class /\ ExternalIssued(c.goog)
       ELSE ~ExternalIssued(c.goog) /\ SettledValue(c.goog) = <<>>
  /\ NoExternalLinks

\* C14 witness: a search with a blank text and a selected item is in flight
\* with the item's class as external query
C14_Witness ==
  \E c \in searchCalls :
     /\ c.text = " "
     /\ c.selectedItem # NoItem
     /\ c.googleQuery = c.selectedItem.class
     /\ c.goog.status = "pending"


(***************************************************************************)
(* Specification of one session from upload to generation: the path of     *)
(* the uploaded file travels from detectItems through handleAction and     *)
(* handleResultsFound to handleGenerateDesign.                             *)
(***************************************************************************)
NextPath ==
  \/ OpenModal
  \/ \E f \in Files : handleFileChange(f)
  \/ \E c \in detectCalls : \E b \in DetectBodies(c.file) :
        DetectResponds(c, "ok", b)
  \/ handleAction
  \/ \E c \in searchCalls : RecommendResponds(c, "ok", <<WireCanonical, WireLegacy>>)
  \/ \E c \in searchCalls : GoogleResponds(c, "ok", <<>>)
  \/ RevealLoad
  \/ RevealRerender
  \/ \E b \in GenButtons : handleGenerateDesign(b[1], b[2])
  \/ \E c \in genCalls : GenResponds(c, "ok", [generated_image |-> "imgA"])

SpecPath == Init /\ [][NextPath]_vars

\* the path a search carries is the one detectItems stored, and the path a
\* generate request sends is the one the search handed to the results view
PathCarried ==
  /\ handleAction
       => \A c \in searchCalls' \ searchCalls : c.path = originalImagePath
  /\ \A c \in searchCalls :
       ((\/ RecommendResponds(c, "ok", <<WireCanonical, WireLegacy>>)
         \/ GoogleResponds(c, "ok", <<>>))
          /\ \A d \in searchCalls' : d.id # c.id)
         => generationContext'.originalImagePath = c.path
  /\ \A g \in genCalls' \ genCalls :
       g.original_image_path = generationContext.originalImagePath

C16_DetectOutcomes ==
  [][ \A c \in detectCalls :
        /\ \A b \in DetectBodies(c.file) :
             DetectResponds(c, "ok", b)
               => IF b # <<>>
                  THEN selectedItemIndex' = 0
                  ELSE /\ selectedItemIndex' = NoIndex
                       /\ lastToast' = ToastNoItems
                       /\ lastToast'.variant # "destructive"
        /\ \A st \in Failures : \A b \in DetectBodies(c.file) :
             DetectResponds(c, st, b)
               => /\ detectedItems' = <<>>
                  /\ selectedItemIndex' = NoIndex
                  /\ lastToast' = ToastDetectFailed
                  /\ lastToast'.variant = "destructive"
                  /\ detectCalls' = detectCalls \ {c} ]_vars


(***************************************************************************)
(* StylingChat (StylingChat.tsx:27-110).                                   *)
(***************************************************************************)
\* number of turns a chat session of the model has
MaxTurns == 2

\* texts the user can type, files the user can attach
ChatInputs == {"", " ", "hi"}
ChatFiles == {"room.png", "sofa.jpg"}

\* the name under which the chat backend keeps an uploaded file
ServerName(file) == "srv/" \o file

\* newUserMsg of handleSend
UserMessage(now, text, file) ==
  [id |-> now, role |-> "user", content |-> text, has_image |-> (file # NULL)]

\* aiMsg of handleSend (its recommendations are left out)
AssistantMessage(now, data) ==
  [id |-> now + 1, role |-> "assistant", content |-> data.response,
   has_image |-> UNDEF]

\* the synthetic message of the catch block
ErrorMessage(now) ==
  [id |-> now, role |-> "assistant", content |-> "Error connecting to server.",
   has_image |-> UNDEF]

\* the history of a send that forgets the earlier turns
WithUserMessage_Replace(msgs, m) == <<m>>

\* [...messages, newUserMsg]
WithUserMessage(msgs, m) == Append(msgs, m)

\* the catch block replacing the failed turn by the error message
AfterFailure_DropsTurn(prev, now) ==
  Append(SubSeq(prev, 1, Len(prev) - 1), ErrorMessage(now))

\* setMessages(prev => [...prev, errorMessage]) of the catch block
AfterFailure(prev, now) == Append(prev, ErrorMessage(now))

\* newMessages.map(m => ({ role: m.role, content: m.content }))
ApiMessages(msgs) ==
  [i \in DOMAIN msgs |-> [role |-> msgs[i].role, content |-> msgs[i].content]]

\* the image part of a request that sends the handle along with the file
ImagePart_Both(file, handle) ==
  [image |-> file,
   image_filename |-> IF TruthyStr(handle) THEN handle ELSE NULL]

\* the image part of the form data: the attached file, else the server's
\* file name, else nothing
ImagePart(file, handle) ==
  IF file # NULL THEN [image |-> file, image_filename |-> NULL]
  ELSE IF TruthyStr(handle) THEN [image |-> NULL, image_filename |-> handle]
  ELSE [image |-> NULL, image_filename |-> NULL]

\* bodies a 2xx answer to request c may carry: a reply, with or without the
\* server's name of the image the request referred to
ChatBodies(c) ==
  { [response |-> "reply", image_filename |-> UNDEF] }
    \cup { [response |-> "reply", image_filename |-> h] :
             h \in (IF c.image # NULL THEN {ServerName(c.image)} ELSE {})
                     \cup (IF c.image_filename # NULL THEN {c.image_filename} ELSE {}) }

\* outcomes of a chat request: Statuses, or a 2xx answer whose body is not JSON
ChatStatuses == Statuses \cup {"malformed"}

\* HomeScreen's onOpenChat and the chat's onClose
OpenChat ==
  /\ ~showResults
  /\ ~isChatOpen
  /\ isChatOpen' = TRUE
  /\ UNCHANGED << modalVars, netVars, indexVars, revealVars, storeVars,
                  pageVars, homeVars, clock, messages, input, chatSelectedFile,
                  serverImageFilename, isLoading, chatCalls, obsVars >>

CloseChat ==
  /\ isChatOpen
  /\ isChatOpen' = FALSE
  /\ UNCHANGED << modalVars, netVars, indexVars, revealVars, storeVars,
                  pageVars, homeVars, clock, messages, input, chatSelectedFile,
                  serverImageFilename, isLoading, chatCalls, obsVars >>

\* the user types into the chat input
SetInput(v) ==
  /\ isChatOpen
  /\ v # input
  /\ input' = v
  /\ UNCHANGED << modalVars, netVars, indexVars, revealVars, storeVars,
                  pageVars, homeVars, clock, messages, chatSelectedFile,
                  serverImageFilename, isLoading, isChatOpen, chatCalls,
                  obsVars >>

\* StylingChat.handleFileChange: the user attaches a file
AttachFile(file) ==
  /\ isChatOpen
  /\ chatSelectedFile' = file
  /\ UNCHANGED << modalVars, netVars, indexVars, revealVars, storeVars,
                  pageVars, homeVars, clock, messages, input,
                  serverImageFilename, isLoading, isChatOpen, chatCalls,
                  obsVars >>

\* the X button of the attachment (StylingChat.tsx:292)
RemoveAttachment ==
  /\ isChatOpen
  /\ chatSelectedFile # NULL
  /\ chatSelectedFile' = NULL
  /\ UNCHANGED << modalVars, netVars, indexVars, revealVars, storeVars,
                  pageVars, homeVars, clock, messages, input,
                  serverImageFilename, isLoading, isChatOpen, chatCalls,
                  obsVars >>

\* the guard of handleSend without its isLoading test
SendReturnsEarly_IgnoresLoading ==
  Trim(input) = "" /\ chatSelectedFile = NULL

\* handleSend returns at its first line
SendReturnsEarly ==
  (Trim(input) = "" /\ chatSelectedFile = NULL) \/ isLoading

\* Enter or the send button: handleSend up to the await of fetch
handleSend ==
  /\ isChatOpen
  /\ ~SendReturnsEarly
  /\ Len(messages) < 2 * MaxTurns
  /\ LET newMessages ==
           WithUserMessage(messages, UserMessage(clock, input, chatSelectedFile))
     IN  /\ messages' = newMessages
         /\ chatCalls' = chatCalls \cup
              { [id |-> Len(messages),
                 messages |-> ApiMessages(newMessages),
                 image |-> ImagePart(chatSelectedFile, serverImageFilename).image,
                 image_filename |->
                   ImagePart(chatSelectedFile, serverImageFilename).image_filename] }
  /\ input' = ""
  /\ isLoading' = TRUE
  /\ UNCHANGED << modalVars, netVars, indexVars, revealVars, storeVars,
                  pageVars, homeVars, clock, chatSelectedFile,
                  serverImageFilename, isChatOpen, obsVars >>

\* the answer to request c arrives: the rest of handleSend
ChatResponds(c, status, body) ==
  /\ c \in chatCalls
  /\ chatCalls' = chatCalls \ {c}
  /\ IF status = "ok"
     THEN /\ messages' = Append(messages, AssistantMessage(clock, body))
          /\ IF TruthyStr(body.image_filename)
             THEN /\ serverImageFilename' = body.image_filename
                  /\ chatSelectedFile' = NULL
             ELSE UNCHANGED << serverImageFilename, chatSelectedFile >>
          /\ lastConsole' = lastConsole
     ELSE /\ messages' = AfterFailure(messages, clock)
          /\ lastConsole' = "Chat error"
          /\ UNCHANGED << serverImageFilename, chatSelectedFile >>
  /\ isLoading' = FALSE
  /\ UNCHANGED << modalVars, netVars, indexVars, revealVars, storeVars,
                  pageVars, homeVars, clock, input, isChatOpen, lastToast,
                  lastJoin >>

NextChat ==
  \/ OpenChat
  \/ CloseChat
  \/ \E v \in ChatInputs : SetInput(v)
  \/ \E f \in ChatFiles : AttachFile(f)
  \/ RemoveAttachment
  \/ handleSend
  \/ \E c \in chatCalls, st \in ChatStatuses : \E b \in ChatBodies(c) :
        ChatResponds(c, st, b)
  \/ Tick

SpecChat == Init /\ [][NextChat]_vars


\* the outcomes of a chat request that make handleSend enter its catch block
ChatFailures == ChatStatuses \ {"ok"}

\* C17: the chat history is append-only: in every step the new message list
\* has the previous list as a prefix.
C17_HistoryAppendOnly ==
  [][ /\ Len(messages') >= Len(messages)
      /\ SubSeq(messages', 1, Len(messages)) = messages ]_vars

\* C17 witness: a history of two turns, the first failed, the second answered
C17_Witness ==
  /\ Len(messages) = 4
  /\ messages[1].role = "user"
  /\ messages[2] = ErrorMessage(messages[2].id)
  /\ messages[3].role = "user"
  /\ messages[4].content = "reply"
  /\ ~isLoading

\* C18: when a chat request fails, the user message of its turn stays in the
\* history, exactly one assistant error message is appended after it, and
\* neither serverImageFilename nor the attached file changes.
C18_FailureKeepsTurn ==
  [][ \A c \in chatCalls : \A st \in ChatFailures : \A b \in ChatBodies(c) :
        ChatResponds(c, st, b)
          => /\ Len(messages') = Len(messages) + 1
             /\ SubSeq(messages', 1, Len(messages)) = messages
             /\ messages'[c.id + 1].role = "user"
             /\ messages'[c.id + 1].content = c.messages[c.id + 1].content
             /\ messages'[c.id + 2].role = "assistant"
             /\ messages'[c.id + 2].content = "Error connecting to server."
             /\ Len(messages') = c.id + 2
             /\ serverImageFilename' = serverImageFilename
             /\ chatSelectedFile' = chatSelectedFile ]_vars

\* C18 witness: a turn with an attached file has failed and the file is
\* still attached
C18_Witness ==
  /\ Len(messages) = 2
  /\ messages[1].role = "user"
  /\ messages[1].has_image = TRUE
  /\ messages[2].content = "Error connecting to server."
  /\ chatSelectedFile = "room.png"
  /\ serverImageFilename = NULL
  /\ chatCalls = {}

C20_LegsConcurrent ==
  [][ /\ handleAction
        => \A n \in searchCalls' \ searchCalls :
             n.googleQuery # "" => (n.rec = Pending /\ n.goog = Pending)
      /\ \A c \in searchCalls : \A st \in Failures : \A b \in RecommendBodies :
           (RecommendResponds(c, st, b) /\ c.goog = Pending)
             => /\ \E d \in searchCalls' :
                     /\ d.id = c.id
                     /\ d.goog = Pending
                     /\ d.googleQuery = c.googleQuery
                     /\ d.rec.status = "rejected"
                /\ lastJoin' = lastJoin
                /\ isSearching' = isSearching ]_vars

\* C20 witness: the similarity request has failed while the external request
\* of the same search is still outstanding
C20_Witness ==
  \E c \in searchCalls :
     /\ c.googleQuery # ""
     /\ c.rec.status = "rejected"
     /\ c.goog = Pending


(***************************************************************************)
(* Specification of a search during which the user keeps editing the       *)
(* modal: text, selection, upload and delete stay available in flight.     *)
(***************************************************************************)
NextFreeze ==
  \/ \E v \in {"", "modern"} : SetVision(v)
  \/ \E i \in 0..1 : SelectItem(i)
  \/ \E f \in Files : handleFileChange(f)
  \/ \E c \in detectCalls : DetectResponds(c, "ok", ItemsOf(c.file))
  \/ DeleteImage
  \/ handleAction
  \/ \E c \in searchCalls, st \in {"ok", "http_error"} :
        \E b \in {<<WireCanonical, WireLegacy>>, NotArray} :
           RecommendResponds(c, st, b)
  \/ \E c \in searchCalls, st \in {"ok", "network_error"} :
        GoogleResponds(c, st, <<LinkA>>)

SpecFreeze == InitSearch /\ [][NextFreeze]_vars

\* the parameters a running search was started with
Frozen(c) == << c.selectedItem, c.file, c.text, c.path, c.googleQuery >>

\* what the join of call c leaves behind when its similarity leg settled as
\* recLeg and its external leg as googLeg
JoinedAs(c, recLeg, googLeg) ==
  LET data == IF recLeg.transport = "ok" THEN recLeg.value ELSE <<>>
      links == IF googLeg.transport = "ok" /\ IsArray(googLeg.value)
               THEN googLeg.value ELSE <<>>
      ctx == [originalImagePath |-> c.path,
              selectedCropUrl |-> c.selectedItem.crop_url,
              vision |-> c.text]
  IN IF IsArray(data)
     THEN /\ lastJoin'.onResults = 1
          /\ lastJoin'.data = data
          /\ lastJoin'.links = links
          /\ generationContext' = ctx
          /\ realRecommendations' = Formatted(data)
          /\ externalLinks' = links
          /\ showResults'
     ELSE /\ lastJoin'.onResults = 0
          /\ UNCHANGED << generationContext, realRecommendations,
                          externalLinks, showResults >>

\* C21: a search takes its request parameters and its context from the
\* modal's state when handleAction is invoked; no later step changes them,
\* and the join emits the context and the result determined by those
\* parameters and the two responses alone, whichever response comes last and
\* whatever the text, selection and file of the modal are by then.
C21_ContextFrozen ==
  [][ /\ handleAction
        => \A n \in searchCalls' \ searchCalls :
             Frozen(n) = << SelectedItem, selectedFile, vision,
                            originalImagePath, GoogleQuery(vision, SelectedItem) >>
      /\ \A c \in searchCalls : \A d \in searchCalls' :
           d.id = c.id => Frozen(d) = Frozen(c)
      /\ \A c \in searchCalls :
           /\ c.goog.status # "pending"
                => \A st \in Statuses : \A b \in RecommendBodies :
                     RecommendResponds(c, st, b)
                       => JoinedAs(c, RecommendSettle(st, b), c.goog)
           /\ c.rec.status # "pending"
                => \A gst \in Statuses : \A gb \in GoogleBodies :
                     GoogleResponds(c, gst, gb)
                       => JoinedAs(c, c.rec, GoogleSettle(gst, gb)) ]_vars

\* C21 witness: one leg of a search has answered while the text, the file
\* and the path of the modal are no longer those the search was started with
C21_Witness ==
  \E c \in searchCalls :
     /\ c.text = "modern" /\ vision = ""
     /\ c.file # selectedFile
     /\ c.path # originalImagePath
     /\ c.selectedItem # NoItem
     /\ c.goog.status = "fulfilled"
     /\ c.rec = Pending


\* call c leaves the set of running searches in this step: it is joined
Joined(c) == \A d \in searchCalls' : d.id # c.id

\* C22: in the context a search emits, selectedCropUrl is non-null only if a
\* detected item was selected and is then the crop_url of an item detected
\* in the uploaded file of that search; originalImagePath, when non-null, is
\* the path derived from that file.
C22_ContextOfCurrentFile ==
  [][ \A c \in searchCalls :
        (Joined(c) /\ lastJoin'.onResults = 1)
          => /\ generationContext'.selectedCropUrl # NULL
                  => /\ c.selectedItem # NoItem
                     /\ \E it \in Range(ItemsOf(c.file)) :
                           it.crop_url = generationContext'.selectedCropUrl
             /\ generationContext'.originalImagePath
                  \in {NULL, UploadPath(c.file)} ]_vars


\* a toast that tells the user about an error is shown in this step
ErrorToastShown == lastToast'.variant = "destructive"

\* C23: every transport failure of a detect, similarity, generate or chat
\* request is reported to the user: by a destructive toast of the modal or
\* of the results view, or by the error message of the chat.
C23_FailuresReported ==
  [][ /\ \A c \in detectCalls : \A st \in Failures :
           \A b \in DetectBodies(c.file) :
             DetectResponds(c, st, b) => ErrorToastShown
      /\ \A c \in searchCalls :
           (Joined(c) /\ lastJoin' # lastJoin /\ lastJoin'.rec \in Failures)
             => ErrorToastShown
      /\ \A c \in genCalls : \A st \in Failures : \A b \in GenBodies :
           GenResponds(c, st, b) => ErrorToastShown
      /\ \A c \in chatCalls : \A st \in ChatFailures : \A b \in ChatBodies(c) :
           ChatResponds(c, st, b)
             => messages'[Len(messages')].content = "Error connecting to server."
    ]_vars


\* C24: a generate call that ends without success (network error, non-2xx,
\* or a body without generated_image) leaves the displayed image, the
\* recommendations, the external links, the context, the session entry and
\* the stores as they were, sends no further request, and re-enables the
\* Simulation buttons of the mounted results view.
C24_GenerateFailureIsTerminal ==
  [][ \A c \in genCalls : \A st \in Statuses : \A b \in GenBodies :
        (GenResponds(c, st, b)
           /\ (st \in Failures \/ ~TruthyStr(b.generated_image)))
          => /\ UNCHANGED << generatedImage, realRecommendations, externalLinks,
                             generationContext, showResults, lastSearchResults,
                             isModalOpen, savedItems, isProjectSaved, storeVars >>
             /\ genCalls' = genCalls \ {c}
             /\ ~c.orphan
                  => /\ generatingId' = NULL
                     /\ \A i \in DOMAIN realRecommendations' :
                          << realRecommendations'[i].item_img,
                             realRecommendations'[i].id >> \in GenButtons' ]_vars

\* C24 witness: a generate call has failed while an earlier generated image
\* is displayed, and no call is left in flight
C24_Witness ==
  /\ showResults
  /\ generatedImage = "imgA"
  /\ lastConsole = "Generation failed"
  /\ genCalls = {}
  /\ generatingId = NULL
  /\ ContextValid


(***************************************************************************)
(* Specification of saving projects in one tab: the results view, the       *)
(* saved page reached by its "/saved" link, and the return to "/" where     *)
(* Index restores the results view from sessionStorage.                     *)
(***************************************************************************)
\* the Link to "/saved" of the results view: Index and ProjectReveal are
\* unmounted, SavedItems is mounted and its load effect runs
LeaveToSaved ==
  /\ showResults
  /\ revealPc = "idle"
  /\ ~pageMounted
  /\ isModalOpen' = FALSE
  /\ showResults' = FALSE
  /\ generatedImage' = NULL
  /\ realRecommendations' = <<>>
  /\ externalLinks' = <<>>
  /\ generationContext' = NoContext
  /\ UnmountReveal
  /\ pageMounted' = TRUE
  /\ pageSavedItems' =
       IF Truthy(casai_wishlist) /\ ParsesToArray(casai_wishlist)
       THEN Parsed(casai_wishlist) ELSE <<>>
  /\ savedProjects' =
       IF /\ ~(Truthy(casai_wishlist) /\ ParseThrows(casai_wishlist))
          /\ Truthy(casai_projects) /\ ParsesToArray(casai_projects)
       THEN Parsed(casai_projects) ELSE <<>>
  /\ UNCHANGED << modalVars, detectCalls, searchCalls, lastSearchResults,
                  storeVars, homeVars, clock, chatVars, obsVars >>

\* the Link to "/" of the saved page: SavedItems is unmounted, Index is
\* mounted and its restore effect runs (part_004:97-111)
ReturnFromSaved ==
  /\ pageMounted
  /\ ~showResults
  /\ pageMounted' = FALSE
  /\ pageSavedItems' = <<>>
  /\ savedProjects' = <<>>
  /\ IF /\ lastSearchResults # NoSession
        /\ Len(lastSearchResults.recommendations) > 0
     THEN /\ realRecommendations' = lastSearchResults.recommendations
          /\ externalLinks' = lastSearchResults.externalLinks
          /\ generationContext' = lastSearchResults.context
          /\ generatedImage' =
               IF TruthyStr(lastSearchResults.generatedImage)
               THEN lastSearchResults.generatedImage ELSE generatedImage
          /\ showResults' = TRUE
          /\ lastSearchResults' = NoSession
          /\ revealPc' = "mount"
     ELSE UNCHANGED << realRecommendations, externalLinks, generationContext,
                       generatedImage, showResults, lastSearchResults, revealPc >>
  /\ UNCHANGED << modalVars, netVars, isModalOpen, savedItems, isProjectSaved,
                  generatingId, pendingItems, storeVars, homeVars, clock,
                  chatVars, obsVars >>

NextRoute ==
  \/ ~pageMounted /\ MountHome
  \/ ~pageMounted /\ ResultsFound
  \/ RevealLoad
  \/ RevealRerender
  \/ handleSaveProject
  \/ \E img \in Images : onGeneratedImage(img)
  \/ onClose
  \/ LeaveToSaved
  \/ \E i \in DOMAIN savedProjects : removeProject(savedProjects[i].id)
  \/ ReturnFromSaved
  \/ Tick

SpecRoute == InitStore /\ [][NextRoute]_vars

\* the image is the image of a stored project
ImageStored(img) ==
  \E i \in DOMAIN StoreList(casai_projects) :
     StoreList(casai_projects)[i].image = img

\* C25: no two stored projects have the same image, and whenever the save
\* button of the results view is enabled (an image is displayed, the effects
\* have run, isProjectSaved is false) the displayed image is the image of no
\* stored project.
C25_NoDuplicateProjects ==
  /\ \A i, j \in DOMAIN StoreList(casai_projects) :
       StoreList(casai_projects)[i].image = StoreList(casai_projects)[j].image
         => i = j
  /\ (showResults /\ revealPc = "idle" /\ TruthyStr(generatedImage)
        /\ ~isProjectSaved)
       => ~ImageStored(generatedImage)

\* C25 witness: two projects are stored and the results view, restored from
\* the session after a visit of the saved page and showing the image of the
\* older project, has found it saved
C25_Witness ==
  /\ showResults
  /\ lastSearchResults = NoSession
  /\ revealPc = "idle"
  /\ Len(StoreList(casai_projects)) = 2
  /\ StoreList(casai_projects)[2].image = generatedImage
  /\ StoreList(casai_projects)[1].image # generatedImage
  /\ isProjectSaved


\* C26: whenever a detect request is in flight while the open modal shows an
\* uploaded file, isDetecting is true and the search button is disabled.
C26_DetectingWhileInFlight ==
  (isModalOpen /\ selectedFile # NULL /\ detectCalls # {})
    => (isDetecting /\ ~SearchEnabled)


\* C27: a generation response that arrives after the results view has been
\* closed changes nothing visible: the results view stays closed, the modal
\* stays as it is and generatedImage is not set from the response.
C27_LateGenerationIgnored ==
  [][ \A c \in genCalls : \A st \in Statuses : \A b \in GenBodies :
        (c.orphan /\ ~showResults /\ GenResponds(c, st, b))
          => UNCHANGED << showResults, generatedImage, isModalOpen >> ]_vars


(***************************************************************************)
(* The chat with requests that complete: every /api/chat request that is   *)
(* in flight is eventually answered (with success or with a failure).      *)
(***************************************************************************)
ChatAnswered ==
  \E c \in chatCalls, st \in ChatStatuses : \E b \in ChatBodies(c) :
     ChatResponds(c, st, b)

NextChatLive ==
  \/ OpenChat
  \/ CloseChat
  \/ \E v \in {"", "hi"} : SetInput(v)
  \/ AttachFile("room.png")
  \/ RemoveAttachment
  \/ handleSend
  \/ ChatAnswered

SpecChatLive == Init /\ [][NextChatLive]_vars /\ WF_vars(ChatAnswered)

\* the history is user, assistant, user, assistant, ...
Alternates ==
  \A i \in DOMAIN messages :
     messages[i].role = IF i % 2 = 1 THEN "user" ELSE "assistant"

\* C28: at most one chat request is in flight; isLoading is true exactly
\* while one is; the history alternates user and assistant messages, has
\* even length whenever the chat is idle and ends with the unanswered user
\* message while it is loading; and every accepted send is eventually
\* followed by one assistant message with isLoading back to false.
C28_OneRequestOneAnswer ==
  /\ [](/\ Cardinality(chatCalls) <= 1
        /\ isLoading <=> chatCalls # {}
        /\ Alternates
        /\ ~isLoading => Len(messages) % 2 = 0
        /\ isLoading => Len(messages) % 2 = 1)
  /\ \A n \in 0..(MaxTurns - 1) :
       (isLoading /\ Len(messages) = 2 * n + 1)
         ~> (~isLoading /\ Len(messages) = 2 * n + 2
               /\ messages[2 * n + 2].role = "assistant")

\* C28 witness: two sends have been answered, the first with the synthetic
\* error and the second with a reply, and the chat is idle
C28_Witness ==
  /\ ~isLoading
  /\ chatCalls = {}
  /\ Len(messages) = 4
  /\ messages[2].content = "Error connecting to server."
  /\ messages[4].content = "reply"
  /\ messages[3].has_image


\* C29: a response clears the attached file only if that file is the one
\* the answered request carried.
C29_ClearsOnlySentFile ==
  [][ \A c \in chatCalls : \A st \in ChatStatuses : \A b \in ChatBodies(c) :
        (ChatResponds(c, st, b) /\ chatSelectedFile # NULL
           /\ chatSelectedFile' = NULL)
          => c.image = chatSelectedFile ]_vars


\* C30: the effects of a mount of the results view leave a stored wishlist
\* that is a valid array as it is, in the step of the load effect as in the
\* step of the render that follows, after which the in-memory wishlist is
\* the stored one.
C30_MountKeepsStoredWishlist ==
  [][ /\ (RevealLoad /\ revealPc = "mount" /\ ~Malformed(casai_wishlist))
           => casai_wishlist' = casai_wishlist
      /\ RevealRerender
           => /\ StoreList(casai_wishlist') = pendingItems
              /\ savedItems' = StoreList(casai_wishlist') ]_vars

====
